---- MODULE Spec2Model ----
(***************************************************************************)
(* Model of the aladdin_bot crawl core:                                    *)
(*   - the retry decorator            (src/src/helpers/helper_functions.py)*)
(*   - the Redis de-duplication store (src/src/db/redis.py)                *)
(*   - the Selenium crawl session     (src/src/helpers/selenium_helper.py) *)
(***************************************************************************)
EXTENDS Integers, Sequences, FiniteSets, TLC

\* ------------------------------------------------------------------ bounds
\* largest max_retries handed to the retry decorator
MaxRetries == 4

\* last instant of the modelled wall clock
MaxClock == 1
\* most batches one SCAN iteration is split into
MaxBatches == 2

\* largest value tried for the configured MAX_PRODUCTS_PER_WEBSITE
MaxProductsCfg == 1
\* crawl runs made one after the other
MaxRuns == 2
\* most products the sessions accept together while cards are processed
MaxAccepted == 2

\* ------------------------------------------------------------- variables
VARIABLES
    website_name,   \* SeleniumHelper.website_name
    category,       \* SeleniumHelper.category
    page_conter,    \* SeleniumHelper.page_conter
    product_urls,   \* SeleniumHelper.product_urls
    max_products,   \* the configured MAX_PRODUCTS_PER_WEBSITE
    runs,           \* what the get_products calls made so far returned
    s_last,         \* the last SeleniumHelper method call and its outcome
    clock,      \* wall clock, in timestamp ticks
    store,      \* Redis: key -> members of the set stored there ({} = no key)
    expiry,     \* Redis: key -> instant the key expires at (0 = no expiry)
    genKeys,    \* window keys returned by generate_product_url_cache_key so far
    added,      \* history: <<key, url>> pairs SADDed and not expired/removed since
    last,       \* the last RedisDB method call: name, arguments, returned value
    r_max,      \* retry: the decorator's max_retries argument
    r_func,     \* retry: outcome of the wrapped function on its k-th call
    r_pc,       \* retry: "ready" before the wrapper is called, "returned" after
    r_out,      \* retry: what the wrapper call did (calls, sleeps, value)
    d_client,   \* RedisDB.client and RedisDB.pool: unset, set, or client only
    d_redis,    \* what the crawler holds as its `redis`: the RedisDB or False
    d_last,     \* the last call made through `redis` while the store is not usable
    c_site,     \* card processing: the site the sessions crawl
    c_sess,     \* card processing: per session, product_urls and products
    c_last,     \* card processing: the last card a session's loop body took
    c_page,     \* card processing: per session, page_conter
    q_scan      \* one is_url_cached call: the batches SCAN returns, the outcome

retryVars == <<r_max, r_func, r_pc, r_out>>
storeVars == <<clock, store, expiry, genKeys, added, last>>
sessVars == <<website_name, category, page_conter, product_urls, max_products,
              runs, s_last>>
connVars == <<d_client, d_redis, d_last>>
cardVars == <<c_site, c_sess, c_last, c_page>>
scanVars == <<q_scan>>
vars == <<retryVars, storeVars, sessVars, connVars, cardVars, scanVars>>
\* what the store's actions leave alone
otherVars == <<retryVars, sessVars, connVars, cardVars, scanVars>>

\* Python values the modelled functions return: None, a bool, an int, or the
\* value produced by the k-th call of a wrapped function.
None == [kind |-> "none", b |-> FALSE, n |-> 0]
PyBool(x) == [kind |-> "bool", b |-> x, n |-> 0]
PyInt(i) == [kind |-> "int", b |-> FALSE, n |-> i]
ResultOfCall(k) == [kind |-> "result", b |-> FALSE, n |-> k]

\* ================================================================= retry
\* What one call of the wrapped function can do: return its value, or raise
\* an exception derived from Exception.
Outcomes == {"ok", "exc"}

RECURSIVE Pow2(_)
Pow2(n) == IF n <= 0 THEN 1 ELSE 2 * Pow2(n - 1)

\* The events of a wrapper call, in order: <<"call", k>> is the k-th
\* invocation of func, <<"sleep", w>> is sleep(w).
NoTrace == <<>>

\* wait_time = 2 ** retry_count
wait_time_doubled(retry_count) == Pow2(retry_count + 1)
wait_time(retry_count) == Pow2(retry_count)

\* the last attempt failed: else: return None
exhausted_reraise(called) == [trace |-> called, value |-> None, raised |-> TRUE]
exhausted(called) == [trace |-> called, value |-> None, raised |-> FALSE]

\* One pass of `for retry_count in range(max_retries)`: try: return func()
\* except Exception: sleep and go on, or return None after the last attempt.
\* `func` gives the outcome of the successive calls; `s` is the wrapper so far:
\* its event trace, and whether and what it has returned.
Running(trace) == [returned |-> FALSE, trace |-> trace, value |-> None, raised |-> FALSE]
Returned_loop_goes_on(out) ==
    [returned |-> FALSE, trace |-> out.trace, value |-> out.value, raised |-> out.raised]
Returned(out) ==
    [returned |-> TRUE, trace |-> out.trace, value |-> out.value, raised |-> out.raised]

retry_step(max_retries, func, s, retry_count) ==
    IF s.returned THEN s
    ELSE LET called == Append(s.trace, <<"call", retry_count + 1>>) IN
         IF func[retry_count + 1] = "ok"
         THEN \* return func(*args, **kwargs)
              Returned([trace |-> called, value |-> ResultOfCall(retry_count + 1),
                        raised |-> FALSE])
         ELSE IF retry_count < max_retries - 1
              THEN Running(Append(called, <<"sleep", wait_time(retry_count)>>))
              ELSE Returned(exhausted(called))

\* the whole loop; a loop that ends without returning makes the wrapper
\* return None
retry_wrapper(max_retries, func) ==
    LET n == IF max_retries < 0 THEN 0 ELSE max_retries
        pass[i \in 0..n] ==
            IF i = 0 THEN Running(NoTrace)
            ELSE CHOOSE next \in {retry_step(max_retries, func, s, i - 1) :
                                     s \in {pass[i - 1]}} : TRUE
    IN  CHOOSE out \in {[trace |-> s.trace, value |-> s.value, raised |-> s.raised] :
                            s \in {pass[n]}} : TRUE

retry_one_short(max_retries, func) == retry_wrapper(max_retries - 1, func)
retry(max_retries, func) == retry_wrapper(max_retries, func)

\* projections of a wrapper result
Calls(out)  == SelectSeq(out.trace, LAMBDA e : e[1] = "call")
Sleeps(out) == SelectSeq(out.trace, LAMBDA e : e[1] = "sleep")
RECURSIVE TotalSlept(_)
TotalSlept(evs) ==
    IF evs = <<>> THEN 0
    ELSE (IF Head(evs)[1] = "sleep" THEN Head(evs)[2] ELSE 0) + TotalSlept(Tail(evs))

\* ============================================================ Redis store
\* URLs in their canonical affiliate form, as short_url_with_affiliate_code
\* builds them for AMAZON: the site and the 10-character product id.
\* f"https://www.amazon.in/dp/{product_id}/{AMAZON_AFFILIATE_ID}"
AmazonUrl(id) == [site |-> "AMAZON", path |-> <<"dp", id>>, query |-> ""]
ProductIds == {"B000000001", "B000000002"}
URLs == {AmazonUrl(id) : id \in ProductIds}

\* datetime.now().strftime("%A").lower(): the day a timestamp falls on, 0..6.
\* A day is two ticks of the modelled clock.
Weekday(t) == (t \div 2) % 7

\* generate_product_url_cache_key:
\* f"{PRODUCT_URL_CACHE_KEY}_{time_stamp}_{week_day}"
generate_product_url_cache_key(now) ==
    [kind |-> "window", ts |-> now, wd |-> Weekday(now)]

\* PRODUCT_CACHE_KEY = f"product_url_cache", the literal key of is_product_valid
GateKey == [kind |-> "gate", ts |-> 0, wd |-> 0]
\* some key of the same database that does not start with the cache prefix
OtherKey == [kind |-> "other", ts |-> 0, wd |-> 0]

WindowKeys == {generate_product_url_cache_key(t) : t \in 0..MaxClock}
Keys == WindowKeys \cup {GateKey, OtherKey}

\* match = f"{PRODUCT_URL_CACHE_KEY}*": the keys that start with the cache prefix
MatchesPattern(key) == key.kind \in {"window", "gate"}

\* expire_time arguments handed to add_to_set: None (0), or a number of ticks
ExpireTimes == {0, 1, 2}

\* Redis drops a key when its time-to-live has run out
Expired(exp, now) == {k \in Keys : exp[k] # 0 /\ exp[k] <= now}
Purge(f, gone, empty) == [k \in Keys |-> IF k \in gone THEN empty ELSE f[k]]

\* SADD key member: the new members of the set at key
sadd_overwrite(members, member) == {member}
sadd(members, member) == members \cup {member}

\* EXPIRE key seconds: the instant the key now expires at
expire(now, expire_time) == now + expire_time

\* SISMEMBER key member
sismember(st, key, member) == member \in st[key]

\* ---- redis_call: the decorator around every RedisDB method.  `fails` says
\* whether a Redis command of the method raised; the method's value is `ret`.
redis_call(fails, ret) == IF fails THEN None ELSE ret

\* ---- is_url_cached.  One SCAN iteration returns the keys matching the
\* pattern in batches, some possibly empty; the cursor returned with the last
\* batch is 0.  (A key SCAN returns twice only repeats a SISMEMBER.)
LiveMatching(st) == {k \in Keys : st[k] # {} /\ MatchesPattern(k)}
Batchings(st) ==
    LET live == LiveMatching(st) IN
    UNION {{[i \in 1..n |-> {k \in live : f[k] = i}] : f \in [live -> 1..n]} :
              n \in 1..MaxBatches}

\* how the loop ends: what it returns, after how many SCAN commands
ScanOut(found, scans) == [found |-> found, scans |-> scans]

\* if not keys: if cursor == 0: break / continue
empty_batch_breaks_always(cursor) == TRUE
empty_batch_breaks(cursor) == cursor = 0

\* while True: cursor, keys = scan(cursor, match=pattern) ...
\* The i-th SCAN returns batches[i], and cursor 0 with the last batch.
RECURSIVE scan_loop(_, _, _, _)
scan_loop(st, batches, i, url) ==
    LET keys == batches[i]
        cursor == IF i = Len(batches) THEN 0 ELSE i
    IN  IF keys = {}
        THEN IF empty_batch_breaks(cursor) THEN ScanOut(FALSE, i)
             ELSE scan_loop(st, batches, i + 1, url)
        ELSE IF \E key \in keys : sismember(st, key, url)
             THEN ScanOut(TRUE, i)
             ELSE IF cursor = 0 THEN ScanOut(FALSE, i)
                  ELSE scan_loop(st, batches, i + 1, url)

is_url_cached_first_batch(st, batches, url) ==
    PyBool(\E key \in batches[1] : sismember(st, key, url))
is_url_cached(st, batches, url) == PyBool(scan_loop(st, batches, 1, url).found)
\* the SCAN commands the call issues
scan_count(st, batches, url) == scan_loop(st, batches, 1, url).scans

\* ---- is_member
is_member(st, key, member) == PyBool(sismember(st, key, member))

\* ------------------------------------------------------ store: actions
\* the record of a RedisDB method call; methods that only write record no key
Call(op, key, url, fails, ret) ==
    [op |-> op, key |-> key, url |-> url, fails |-> fails, ret |-> ret]
AnyUrl == AmazonUrl("B000000001")
NoCall == Call("none", OtherKey, AnyUrl, FALSE, None)

\* one is_url_cached(url) call against a store that answers SCAN with
\* `batches`: whether it has returned, its value, the SCAN commands it issued
ScanCall(batches, url, done, ret, scans) ==
    [batches |-> batches, url |-> url, done |-> done, ret |-> ret, scans |-> scans]
NoScan == ScanCall(<<{}>>, AnyUrl, TRUE, None, 0)

InitStore ==
    /\ clock = 0
    /\ store = [k \in Keys |-> {}]
    /\ expiry = [k \in Keys |-> 0]
    /\ genKeys = {}
    /\ added = {}
    /\ last = NoCall
    /\ q_scan = NoScan

\* ---- the connection.  client and pool are None after __init__ and after
\* __exit__ ("None"), both set after a successful __enter__ ("Connected");
\* a ping that raises leaves the client set and the pool None ("NoPool").
ClientStates == {"None", "Connected", "NoPool"}
EnterOutcomes == {"connected", "ctor_raises", "ping_raises"}

\* __enter__: self.client and self.pool afterwards, and the value returned
enter_client(client, outcome) ==
    CASE outcome = "connected" -> "Connected"
      [] outcome = "ctor_raises" -> client
      [] OTHER -> IF client = "Connected" THEN "Connected" ELSE "NoPool"
enter_value(outcome) == IF outcome = "connected" THEN "RedisDB" ELSE "False"

\* __exit__: with the pool unset, self.pool.disconnect() raises and the
\* handler returns False, the client left as it was
exit_client(client) == IF client = "Connected" THEN "None" ELSE client
\* the value __exit__ returns: True after the disconnect, False from the
\* handler; with no client set, False if the block raised and True otherwise
exit_value(client, exc_type) ==
    CASE client = "Connected" -> TRUE
      [] client = "NoPool" -> FALSE
      [] OTHER -> ~exc_type

\* list(self.client.smembers(key)), by its length
PyList(n) == [kind |-> "list", b |-> FALSE, n |-> n]

\* self.redis.<method>(...): `handle` is what self.redis is.  On a RedisDB the
\* call goes through redis_call, which gives None when self.client is unset
\* or a command raises (`down`); False has no such method.
MethodOut(raised, ret) == [raised |-> raised, ret |-> ret]
method_call(handle, client, down, ret) ==
    IF handle = "False" THEN MethodOut(TRUE, None)  \* AttributeError
    ELSE MethodOut(FALSE, redis_call(client = "None" \/ down, ret))

\* the record of a call made through `redis` while the store is not usable
ConnCall(op, raised, ret, asked) ==
    [op |-> op, raised |-> raised, ret |-> ret, asked |-> asked, exc |-> FALSE]
\* the record of __exit__(exc_type, ...): `exc` says the block raised
ExitCall(exc_type, ret) ==
    [ConnCall("__exit__", FALSE, ret, FALSE) EXCEPT !.exc = exc_type]
NoConnCall == ConnCall("none", FALSE, None, FALSE)

\* as left by `with RedisDB() as redis` that connected
InitConn ==
    /\ d_client = "Connected"
    /\ d_redis = "RedisDB"
    /\ d_last = NoConnCall

\* the crawler holds a RedisDB whose client is set: calls reach Redis commands
Usable == d_redis = "RedisDB" /\ d_client # "None"

\* The caller makes one call at a time: a method's returned value is taken by
\* the caller before the next call is made.
Idle ==
    /\ last = NoCall /\ s_last.op = "none" /\ d_last.op = "none"
    /\ c_last.sess = "none"

\* keys a caller of RedisDB names: the window keys it generated, or a key of
\* its own outside the cache prefix.  (No code writes the literal GateKey.)
CallerKeys == genKeys \cup {OtherKey}

\* time passes; keys whose time-to-live has run out disappear
Tick ==
    /\ Idle
    /\ clock < MaxClock
    /\ clock' = clock + 1
    /\ LET gone == Expired(expiry, clock + 1) IN
         /\ store' = Purge(store, gone, {})
         /\ expiry' = Purge(expiry, gone, 0)
         /\ added' = {p \in added : p[1] \notin gone}
    /\ last' = NoCall
    /\ UNCHANGED genKeys
    /\ UNCHANGED otherVars

\* a caller obtains the current window key
GenerateKey ==
    /\ Idle
    /\ genKeys' = genKeys \cup {generate_product_url_cache_key(clock)}
    /\ genKeys' # genKeys
    /\ last' = NoCall
    /\ UNCHANGED <<clock, store, expiry, added>>
    /\ UNCHANGED otherVars

\* add_to_set(key, member, expire_time) under redis_call.  expire_time = 0
\* stands for None (both are falsy).  The failure point says which Redis
\* command raised: none, SADD, or EXPIRE (after SADD took effect).
add_to_set(key, member, expire_time, failure) ==
    /\ Idle /\ Usable
    /\ failure = "expire" => expire_time # 0
    /\ clock + expire_time <= MaxClock + 1  \* later instants lie beyond the clock
    /\ LET done == failure # "sadd"
           result == IF member \in store[key] THEN 0 ELSE 1
       IN  /\ store' = IF done
                        THEN [store EXCEPT ![key] = sadd(store[key], member)]
                        ELSE store
           /\ added' = IF done THEN added \cup {<<key, member>>} ELSE added
           /\ expiry' = IF failure = "none" /\ expire_time # 0
                         THEN [expiry EXCEPT ![key] = expire(clock, expire_time)]
                         ELSE expiry
           /\ last' = Call("add_to_set", OtherKey, AnyUrl, failure # "none",
                           redis_call(failure # "none", PyInt(result)))
    /\ UNCHANGED <<clock, genKeys>>
    /\ UNCHANGED otherVars

FailurePoints == {"none", "sadd", "expire"}

\* any caller, any key it holds
AddToSet ==
    \E key \in CallerKeys, member \in URLs,
       expire_time \in ExpireTimes, failure \in FailurePoints :
        add_to_set(key, member, expire_time, failure)

\* a caller registers a URL under a window key it generated, with no expiry
Register ==
    \E key \in genKeys, member \in URLs, failure \in FailurePoints :
        add_to_set(key, member, 0, failure)

\* is_member(key, member) under redis_call
IsMember ==
    \E key \in CallerKeys, member \in URLs, fails \in BOOLEAN :
        /\ Idle /\ Usable
        /\ last' = Call("is_member", key, member, fails,
                        redis_call(fails, is_member(store, key, member)))
        /\ UNCHANGED <<clock, store, expiry, genKeys, added>>
        /\ UNCHANGED otherVars

\* is_url_cached(url) under redis_call, for every way SCAN may batch the keys
IsUrlCached ==
    \E url \in URLs, fails \in BOOLEAN, batches \in Batchings(store) :
        /\ Idle /\ Usable
        /\ last' = Call("is_url_cached", OtherKey, url, fails,
                        redis_call(fails, is_url_cached(store, batches, url)))
        /\ UNCHANGED <<clock, store, expiry, genKeys, added>>
        /\ UNCHANGED otherVars

\* remove_to_set(key, member) under redis_call: SREM
RemoveToSet ==
    \E key \in CallerKeys, member \in URLs, fails \in BOOLEAN :
        /\ Idle /\ Usable
        /\ store' = IF fails THEN store
                     ELSE [store EXCEPT ![key] = store[key] \ {member}]
        /\ expiry' = IF ~fails /\ store[key] \ {member} = {}
                      THEN [expiry EXCEPT ![key] = 0] ELSE expiry
        /\ added' = IF fails THEN added ELSE added \ {<<key, member>>}
        /\ last' = Call("remove_to_set", OtherKey, AnyUrl, fails,
                        redis_call(fails, PyInt(IF member \in store[key] THEN 1 ELSE 0)))
        /\ UNCHANGED <<clock, genKeys>>
        /\ UNCHANGED otherVars

\* remove_set(key) under redis_call: DEL
RemoveSet ==
    \E key \in CallerKeys, fails \in BOOLEAN :
        /\ Idle /\ Usable
        /\ store' = IF fails THEN store ELSE [store EXCEPT ![key] = {}]
        /\ expiry' = IF fails THEN expiry ELSE [expiry EXCEPT ![key] = 0]
        /\ added' = IF fails THEN added ELSE {p \in added : p[1] # key}
        /\ last' = Call("remove_set", OtherKey, AnyUrl, fails,
                        redis_call(fails, PyInt(IF store[key] # {} THEN 1 ELSE 0)))
        /\ UNCHANGED <<clock, genKeys>>
        /\ UNCHANGED otherVars

\* get_all_member(key) under redis_call
GetAllMember ==
    \E key \in CallerKeys, fails \in BOOLEAN :
        /\ Idle /\ Usable
        /\ last' = Call("get_all_member", key, AnyUrl, fails,
                        redis_call(fails, PyList(Cardinality(store[key]))))
        /\ UNCHANGED <<clock, store, expiry, genKeys, added>>
        /\ UNCHANGED otherVars

\* ======================================================== crawl session
Websites == {"AMAZON", "FLIPKART", "MYNTRA", "AJIO"}
NoSite == "None"
Categories == {"t-shirt"}
NoCategory == "None"

\* PRICE_LIMITS[category]: the per-category price ceiling
PRICE_LIMITS(cat) == 2500

\* ---- raw cards.  Text is a sequence of symbols; "Rupee" stands for the
\* rupee sign.  Absent is what select_one returns when nothing matches.
Absent == <<"absent">>
Digits == {"0", "1", "2", "3", "4", "5", "6", "7", "8", "9"}
DigitValue(d) ==
    CASE d = "0" -> 0 [] d = "1" -> 1 [] d = "2" -> 2 [] d = "3" -> 3
      [] d = "4" -> 4 [] d = "5" -> 5 [] d = "6" -> 6 [] d = "7" -> 7
      [] d = "8" -> 8 [] d = "9" -> 9

\* an href: the path segments before "?" and the query after it
Href(segments, query) == [segs |-> segments, query |-> query]
NoHref == Href(<<>>, "absent")

Card(price, discount, href, rest, verdict) ==
    [price |-> price, discount |-> discount, href |-> href, rest |-> rest,
     verdict |-> verdict]

\* the card of the end-to-end example: 1,999 struck through, 1,499 to pay
DealCard ==
    Card(<<"Rupee", "1", ",", "9", "9", "9">>, <<"Rupee", "1", ",", "4", "9", "9">>,
         Href(<<"shirt", "dp", "B000000001">>, "ref=sr_1"), TRUE, "Best Deal")
\* the same product under another href
DealCardAgain ==
    Card(<<"Rupee", "1", ",", "9", "9", "9">>, <<"Rupee", "1", ",", "4", "9", "9">>,
         Href(<<"dp", "B000000001">>, ""), TRUE, "Best Deal")
\* price and discount exactly at the ceiling
CeilingCard ==
    Card(<<"Rupee", "2", ",", "5", "0", "0">>, <<"2", ",", "5", "0", "0">>,
         Href(<<"dp", "B000000002">>, ""), TRUE, "Best Deal")
\* one above the ceiling
OverCard ==
    Card(<<"Rupee", "2", ",", "5", "0", "1">>, <<"2", ",", "5", "0", "1">>,
         Href(<<"dp", "B000000002">>, ""), TRUE, "Best Deal")
\* list price above the ceiling, price to pay below it
DiscountedCard ==
    Card(<<"Rupee", "3", ",", "0", "0", "0", ".", "0", "0">>,
         <<"Rupee", "1", ",", "4", "9", "9">>,
         Href(<<"dp", "B000000002">>, ""), TRUE, "Best Deal")
\* list price at the ceiling, price to pay above it
DearerCard ==
    Card(<<"Rupee", "2", ",", "5", "0", "0">>, <<"2", ",", "5", "0", "1">>,
         Href(<<"dp", "B000000001">>, ""), TRUE, "Best Deal")
NoDealCard ==
    Card(<<"Rupee", "1", ",", "9", "9", "9">>, <<"Rupee", "1", ",", "4", "9", "9">>,
         Href(<<"dp", "B000000002">>, ""), TRUE, "Average Deal")
NoPriceCard ==
    Card(Absent, <<"1", ",", "4", "9", "9">>, Href(<<"dp", "B000000001">>, ""),
         TRUE, "Best Deal")
NoUrlCard ==
    Card(<<"1", "9", "9", "9">>, <<"1", "4", "9", "9">>, NoHref, TRUE, "Best Deal")
BadPriceCard ==
    Card(<<"N", "/", "A">>, <<"1", "4", "9", "9">>, Href(<<"dp", "B000000001">>, ""),
         TRUE, "Best Deal")
NoIdCard ==
    Card(<<"1", "9", "9", "9">>, <<"1", "4", "9", "9">>,
         Href(<<"gp", "slredirect">>, "x=1"), TRUE, "Best Deal")
IncompleteCard ==
    Card(<<"1", "9", "9", "9">>, <<"1", "4", "9", "9">>,
         Href(<<"dp", "B000000002">>, ""), FALSE, "Best Deal")

Cards == {DealCard, DealCardAgain, CeilingCard, OverCard, DiscountedCard,
          DearerCard, NoDealCard, NoPriceCard, NoUrlCard, BadPriceCard,
          NoIdCard, IncompleteCard}

\* the listing the crawl target serves, page by page; it does not change
Listing == << <<DealCard, NoDealCard, DealCardAgain, CeilingCard>>,
              <<OverCard, IncompleteCard>> >>

\* ---- format_extracted_data and short_url_with_affiliate_code
\* what a function does: return an int, return None, return a URL, or raise
IntVal(i) == [kind |-> "int", n |-> i, url |-> AnyUrl]
NoneVal == [kind |-> "none", n |-> 0, url |-> AnyUrl]
Url(u) == [kind |-> "url", n |-> 0, url |-> u]
Raise == [kind |-> "raise", n |-> 0, url |-> AnyUrl]

\* str.replace(x, ""): the text without the symbols in `drop`
Strip(text, drop) == SelectSeq(text, LAMBDA c : c \notin drop)

\* int(float(text)): the digits before an optional "." and digits; anything
\* else is a ValueError
DigitsValue(ds) ==
    LET v[i \in 0..Len(ds)] ==
            IF i = 0 THEN 0 ELSE 10 * v[i - 1] + DigitValue(ds[i])
    IN  v[Len(ds)]

IntOfFloat(text) ==
    LET dots == {i \in 1..Len(text) : text[i] = "."}
        whole == IF dots = {} THEN text
                 ELSE SubSeq(text, 1, (CHOOSE i \in dots : \A j \in dots : i <= j) - 1)
        frac == IF dots = {} THEN <<>>
                ELSE SubSeq(text, (CHOOSE i \in dots : \A j \in dots : i <= j) + 1,
                            Len(text))
    IN  IF /\ \A i \in 1..Len(whole) : whole[i] \in Digits
           /\ \A i \in 1..Len(frac) : frac[i] \in Digits
           /\ Len(whole) + Len(frac) > 0
        THEN IntVal(DigitsValue(whole))
        ELSE Raise

\* extract_amazon_product_id: r'/dp/([a-zA-Z0-9]{10})'
extract_amazon_product_id(href) ==
    LET at == {i \in 1..(Len(href.segs) - 1) :
                  href.segs[i] = "dp" /\ href.segs[i + 1] \in ProductIds}
    IN  IF at = {} THEN "" ELSE href.segs[(CHOOSE i \in at : \A j \in at : i <= j) + 1]

short_url_with_affiliate_code(site, href) ==
    CASE site = "AMAZON" ->
           IF extract_amazon_product_id(href) = "" THEN NoneVal
           ELSE Url(AmazonUrl(extract_amazon_product_id(href)))
      [] site = "FLIPKART" ->
           Url([site |-> "FLIPKART", path |-> href.segs, query |-> ""])
      [] site = "MYNTRA" ->
           Url([site |-> "MYNTRA", path |-> href.segs, query |-> href.query])
      [] OTHER -> Raise

format_price(site, text) ==
    CASE site \in {"AMAZON", "FLIPKART"} -> IntOfFloat(Strip(text, {",", "Rupee"}))
      [] site = "MYNTRA" -> IntOfFloat(Strip(text, {"Rs.", ","}))
      [] OTHER -> NoneVal

\* format_extracted_data(selector, element_data) for the selectors the gate
\* and the extraction use
format_extracted_data(site, selector, element_data) ==
    IF selector = "product_url"
    THEN short_url_with_affiliate_code(site, element_data)
    ELSE format_price(site, element_data)

\* ---- is_product_valid(price, url).  `member` is what
\* self.redis.is_member(PRODUCT_CACHE_KEY, product_url) returns.
\* The value is Python's True/False, or an exception leaves the method.
\* `asked` says self.redis.is_member was called on the way.
Valid(b) == [raised |-> FALSE, ret |-> b, asked |-> FALSE]
Raised == [raised |-> TRUE, ret |-> FALSE, asked |-> FALSE]
Asked(b) == [raised |-> FALSE, ret |-> b, asked |-> TRUE]

\* product_price <= PRICE_LIMITS[self.category]
price_check_skipped(product_price, cat) == TRUE
price_check(product_price, cat) == product_price <= PRICE_LIMITS(cat)

\* self.redis.is_member(PRODUCT_CACHE_KEY, product_url)
gate_member(st, product_url, fails) ==
    redis_call(fails, is_member(st, GateKey, product_url))

\* product_url in self.product_urls
already_accepted_never(urls, product_url) == FALSE
already_accepted(urls, product_url) ==
    product_url.kind = "url" /\ \E i \in 1..Len(urls) : urls[i] = product_url.url

\* lines 293-305, up to the cache lookup: the method raises, returns False,
\* or goes on to ask the cache about product_url
BeforeCache(kind, product_url) == [kind |-> kind, url |-> product_url]
\* price is None or url is None
is_missing_url_only(price, url) == url = NoHref
is_missing(price, url) == price = Absent \/ url = NoHref

valid_before_cache(site, cat, urls, card) ==
    IF is_missing(card.price, card.href) THEN BeforeCache("false", NoneVal)
    ELSE CHOOSE v \in
           {IF product_price.kind = "raise" \/ product_url.kind = "raise"
            THEN BeforeCache("raise", NoneVal)
            ELSE IF already_accepted(urls, product_url)
            THEN BeforeCache("false", NoneVal)
            ELSE IF product_price.kind = "none"
            THEN BeforeCache("raise", NoneVal)  \* None <= int: TypeError
            ELSE IF price_check(product_price.n, cat)
            THEN BeforeCache("ask", product_url)
            ELSE BeforeCache("false", NoneVal)
            : product_price \in {format_extracted_data(site, "product_price", card.price)},
              product_url \in {format_extracted_data(site, "product_url", card.href)}} : TRUE

\* the whole method, self.redis being a RedisDB
is_product_valid(site, cat, urls, card, st, fails) ==
    CHOOSE v \in
      {CASE g.kind = "raise" -> Raised
         [] g.kind = "false" -> Valid(FALSE)
         [] OTHER ->
              IF g.url.kind = "none"
              THEN Asked(TRUE)  \* SISMEMBER of None raises: is_member gives None
              ELSE Asked(~ gate_member(st, g.url.url, fails).b)
       : g \in {valid_before_cache(site, cat, urls, card)}} : TRUE

\* ---- fetch_product_container, decorated with @retry(3)
FetchRetries == 3
\* the attributes __init__ gives a SeleniumHelper
Attributes == {"redis", "website_name", "category", "page_conter", "product_urls",
               "driver"}

\* one run of the method body: `self.current_page` is read first; then the
\* browser navigates, waits and reads the page, which works or raises (env)
fetch_body(env_outcome) ==
    IF "current_page" \notin Attributes THEN "exc" ELSE env_outcome

\* if self.current_page <= 1 or type == "product": self.driver.get(url).
\* Reading the attribute comes first; `page` is what it would hold.
FetchTypes == {"container", "product"}
fetch_navigates(page, type) ==
    "current_page" \in Attributes /\ (page <= 1 \/ type = "product")

fetch_product_container(env) ==
    retry(FetchRetries, [k \in 1..FetchRetries |-> fetch_body(env[k])])

FetchEnvs == [1..FetchRetries -> Outcomes]

\* get_flipkart_data(url): TRUE when it returns a container
get_flipkart_data(site, href, env) ==
    IF site # "FLIPKART" \/ href = NoHref THEN FALSE
    ELSE fetch_product_container(env).value # None

\* the product_details a card yields (lines 132-160): the formatted fields, or
\* an exception of format_extracted_data
product_details(site, card) ==
    LET price == format_extracted_data(site, "product_price", card.price)
        discount == IF card.discount = Absent THEN NoneVal
                    ELSE format_extracted_data(site, "product_discount", card.discount)
        url == format_extracted_data(site, "product_url", card.href)
    IN  CHOOSE d \in
           {[raised |-> "raise" \in {p.kind, q.kind, u.kind},
             price |-> p, discount |-> q, url |-> u, rest |-> card.rest]
            : p \in {price}, q \in {discount}, u \in {url}} : TRUE

\* None in [product_details.get(key) for key in REQUIRED_PRODUCT_KEYS]
required_missing(details) ==
    \/ "none" \in {details.price.kind, details.discount.kind, details.url.kind}
    \/ ~details.rest

Product(details) ==
    [price |-> details.price.n, discount |-> details.discount.n,
     url |-> details.url.url]

\* ---- extract_products_by_website: the loop over the cards of a container
ExtractOut(raised, products, urls) ==
    [raised |-> raised, products |-> products, urls |-> urls]

\* prediction['prediction'] == "Best Deal"
is_best_deal_or_average(prediction) == prediction \in {"Best Deal", "Average Deal"}
is_best_deal(prediction) == prediction = "Best Deal"

\* one pass of `for product_soup in product_cards`, from the lists so far;
\* `container` says whether get_flipkart_data(product_url) returned one
card_step(site, cat, acc, card, st, fails, container) ==
    IF acc.raised THEN acc
    ELSE CHOOSE next \in
           {IF valid.raised THEN ExtractOut(TRUE, <<>>, acc.urls)
            ELSE IF ~valid.ret THEN acc
            ELSE IF ~container THEN acc
            ELSE CHOOSE filled \in
                   {IF details.raised THEN ExtractOut(TRUE, <<>>, acc.urls)
                    ELSE IF required_missing(details) THEN acc
                    ELSE IF is_best_deal(card.verdict)
                    THEN ExtractOut(FALSE, Append(acc.products, Product(details)),
                                    Append(acc.urls, details.url.url))
                    ELSE acc
                    : details \in {product_details(site, card)}} : TRUE
            : valid \in {is_product_valid(site, cat, acc.urls, card, st, fails)}} : TRUE

extract_step(site, cat, acc, card, st, fails, env) ==
    card_step(site, cat, acc, card, st, fails, get_flipkart_data(site, card.href, env))

extract_loop(site, cat, cards, urls, st, fails, env) ==
    LET pass[i \in 0..Len(cards)] ==
            IF i = 0 THEN ExtractOut(FALSE, <<>>, urls)
            ELSE CHOOSE next \in {extract_step(site, cat, acc, cards[i], st, fails, env) :
                                     acc \in {pass[i - 1]}} : TRUE
    IN  pass[Len(cards)]

extract_products_by_website(site, cat, urls, cards, st, fails, env) ==
    IF site = NoSite THEN ExtractOut(TRUE, <<>>, urls)  \* PRODUCT_CARDS[None]: KeyError
    ELSE extract_loop(site, cat, cards, urls, st, fails, env)

\* ---- has_next_page is defined without `self`: self.has_next_page() is a
\* TypeError.  go_to_next_page clicks and waits for the URL to change.
has_next_page == "raise"

\* ---- get_products: the while loop.  The outcome is the returned list, or an
\* exception; `fetch_failed` says the loop ended on a failed fetch, `fetches`
\* counts the calls of fetch_product_container(url, "container").
SessionOut(done, raised, products, urls, page, fetch_failed, fetches) ==
    [done |-> done, raised |-> raised, products |-> products, urls |-> urls,
     page |-> page, fetch_failed |-> fetch_failed, fetches |-> fetches]

\* while len(products) >= MAX_PRODUCTS_PER_WEBSITE
loop_guard(products, max) == Len(products) >= max

\* one pass of the while loop from the session so far
session_step(site, cat, max, s, st, fails, env) ==
    IF s.done THEN s
    ELSE IF ~loop_guard(s.products, max)
    THEN SessionOut(TRUE, FALSE, s.products, s.urls, s.page, FALSE, s.fetches)
    ELSE IF fetch_product_container(env).value = None
    THEN \* break
         SessionOut(TRUE, FALSE, s.products, s.urls, s.page, TRUE, s.fetches + 1)
    ELSE CHOOSE next \in
           {IF ex.raised \/ has_next_page = "raise"
            THEN \* raise Exception("Error occurred while getting products")
                 SessionOut(TRUE, TRUE, <<>>, ex.urls, s.page, FALSE, s.fetches + 1)
            ELSE IF has_next_page = "false" \/ s.page >= Len(Listing)
            THEN SessionOut(TRUE, FALSE, s.products \o ex.products, ex.urls,
                            s.page, FALSE, s.fetches + 1)
            ELSE SessionOut(FALSE, FALSE, s.products \o ex.products, ex.urls,
                            s.page + 1, FALSE, s.fetches + 1)
            : ex \in {extract_products_by_website(site, cat, s.urls,
                          IF s.page <= Len(Listing) THEN Listing[s.page] ELSE <<>>,
                          st, fails, env)}} : TRUE

\* self.page_conter = 1; self.product_urls = []: what a call makes of the
\* page index and the URL list earlier calls left in the helper
SessionStart(page, urls) == [page |-> page, urls |-> urls]
session_start_kept(page, urls) == SessionStart(page, urls)
session_start(page, urls) == SessionStart(1, <<>>)

\* the listing has Len(Listing) pages, so the loop makes at most that many
\* passes and one more test of its guard
get_products(site, cat, page, urls, max, st, fails, env) ==
    LET pass[i \in 0..(Len(Listing) + 1)] ==
            IF i = 0
            THEN CHOOSE first \in
                   {SessionOut(FALSE, FALSE, <<>>, start.urls, start.page, FALSE, 0) :
                       start \in {session_start(page, urls)}} : TRUE
            ELSE CHOOSE next \in {session_step(site, cat, max, s, st, fails, env) :
                                     s \in {pass[i - 1]}} : TRUE
    IN  pass[Len(Listing) + 1]

\* what a caller of get_products receives besides the products: `return
\* products` hands back the list alone, `raise Exception(...)` an exception
get_products_status(call) == IF call.raised THEN "Exception" ELSE "NoStatus"

\* ---------------------------------------------------- session: actions
\* the record of a SeleniumHelper method call: the method, the card or page
\* it was given, whether the store failed during it, and how it ended
SessCall(op, card, page, fails, raised, ret, products, fetch_failed, fetches) ==
    [op |-> op, card |-> card, page |-> page, fails |-> fails, raised |-> raised,
     ret |-> ret, products |-> products, fetch_failed |-> fetch_failed,
     fetches |-> fetches, asked |-> FALSE, type |-> "none",
     env |-> [k \in 1..FetchRetries |-> "ok"], navigated |-> FALSE]
\* the record of fetch_product_container(url, type): what the browser did on
\* each attempt (env), whether driver.get ran, the attempts made (fetches),
\* and whether a container was returned (ret)
FetchCall(page, type, env, out) ==
    [SessCall("fetch_product_container", DealCard, page, FALSE, out.raised,
              out.value # None, <<>>, out.value = None, Len(Calls(out)))
       EXCEPT !.type = type, !.env = env, !.navigated = fetch_navigates(page, type)]
NoSessCall == SessCall("none", DealCard, 0, FALSE, FALSE, FALSE, <<>>, FALSE, 0)

InitSession ==
    /\ website_name = NoSite
    /\ category = NoCategory
    /\ page_conter = 1
    /\ product_urls = <<>>
    /\ runs = <<>>
    /\ s_last = NoSessCall

\* get_products(website_name, category, url), from its first line to its
\* return or its exception
GetProducts ==
    \E site \in Websites, cat \in Categories, fails \in BOOLEAN, env \in FetchEnvs :
        /\ Idle /\ Usable
        /\ Len(runs) < MaxRuns
        /\ runs # <<>> => site = website_name  \* the runs are of one target
        /\ \E out \in {get_products(site, cat, page_conter, product_urls,
                                     max_products, store, fails, env)} :
             /\ website_name' = site
             /\ category' = cat
             /\ page_conter' = out.page
             /\ product_urls' = out.urls
             /\ runs' = Append(runs, [site |-> site, fails |-> fails,
                                       raised |-> out.raised,
                                       products |-> out.products])
             /\ s_last' = SessCall("get_products", DealCard, out.page, fails,
                              out.raised, FALSE, out.products, out.fetch_failed,
                              out.fetches)
        /\ UNCHANGED max_products
        /\ UNCHANGED <<retryVars, storeVars, connVars, cardVars, scanVars>>

\* extract_products_by_website(main_container) on a page of the listing
ExtractProducts ==
    \E p \in 1..Len(Listing), fails \in BOOLEAN, env \in FetchEnvs :
        /\ Idle /\ Usable
        /\ \E ex \in {extract_products_by_website(website_name, category,
                         product_urls, Listing[p], store, fails, env)} :
             /\ product_urls' = ex.urls
             /\ s_last' = SessCall("extract_products_by_website", DealCard, p,
                              fails, ex.raised, FALSE, ex.products, FALSE, 0)
        /\ UNCHANGED <<website_name, category, page_conter, max_products, runs>>
        /\ UNCHANGED <<retryVars, storeVars, connVars, cardVars, scanVars>>

\* is_product_valid(price, url) on the price and link elements of a card
IsProductValid ==
    \E card \in Cards, fails \in BOOLEAN :
        /\ Idle /\ Usable
        /\ \E v \in {is_product_valid(website_name, category, product_urls, card,
                                      store, fails)} :
             s_last' = [SessCall("is_product_valid", card, 0, fails, v.raised,
                                 v.ret, <<>>, FALSE, 0) EXCEPT !.asked = v.asked]
        /\ UNCHANGED <<website_name, category, page_conter, product_urls,
                       max_products, runs>>
        /\ UNCHANGED <<retryVars, storeVars, connVars, cardVars, scanVars>>

\* fetch_product_container(url, type) on the page the session is on
FetchContainer ==
    \E type \in FetchTypes, env \in FetchEnvs :
        /\ Idle
        /\ \E out \in {fetch_product_container(env)} :
             s_last' = FetchCall(page_conter, type, env, out)
        /\ UNCHANGED <<website_name, category, page_conter, product_urls,
                       max_products, runs>>
        /\ UNCHANGED <<retryVars, storeVars, connVars, cardVars, scanVars>>

\* the caller takes the value a method returned
Return ==
    /\ ~Idle
    /\ last' = NoCall
    /\ s_last' = NoSessCall
    /\ d_last' = NoConnCall
    /\ c_last' = [c_last EXCEPT !.sess = "none", !.card = DealCard,
                                 !.container = FALSE, !.fails = FALSE,
                                 !.op = "card", !.left = SessionStart(1, <<>>)]
    /\ UNCHANGED <<clock, store, expiry, genKeys, added>>
    /\ UNCHANGED <<website_name, category, page_conter, product_urls,
                   max_products, runs>>
    /\ UNCHANGED <<d_client, d_redis>>
    /\ UNCHANGED <<c_site, c_sess, c_page>>
    /\ UNCHANGED <<retryVars, scanVars>>

\* ------------------------------------------- connection: actions
\* `with db as redis:` binds what __enter__ returns; `with db:` keeps the object
Enter ==
    \E outcome \in EnterOutcomes, as_target \in BOOLEAN :
        /\ Idle
        /\ d_client' = enter_client(d_client, outcome)
        /\ d_redis' = IF as_target THEN enter_value(outcome) ELSE "RedisDB"
        /\ UNCHANGED d_last
        /\ UNCHANGED <<retryVars, storeVars, sessVars, cardVars, scanVars>>

\* the with block is left, normally or by an exception raised inside it
Exit ==
    \E exc_type \in BOOLEAN :
        /\ Idle
        /\ d_client' = exit_client(d_client)
        /\ d_last' = ExitCall(exc_type, PyBool(exit_value(d_client, exc_type)))
        /\ UNCHANGED d_redis
        /\ UNCHANGED <<retryVars, storeVars, sessVars, cardVars, scanVars>>

Ops == {"is_member", "is_url_cached", "add_to_set", "get_all_member",
        "remove_to_set", "remove_set"}

\* what the method would return from a store that answers
op_value(op, st, key, member) ==
    CASE op = "is_member" -> is_member(st, key, member)
      [] op = "is_url_cached" -> is_url_cached(st, <<LiveMatching(st)>>, member)
      [] op = "add_to_set" -> PyInt(IF member \in st[key] THEN 0 ELSE 1)
      [] op = "get_all_member" -> PyList(Cardinality(st[key]))
      [] op = "remove_to_set" -> PyInt(IF member \in st[key] THEN 1 ELSE 0)
      [] OTHER -> PyInt(IF st[key] # {} THEN 1 ELSE 0)

\* a RedisDB method called while the store is not usable: no command reaches
\* Redis, the store is as it was
CallUnusable ==
    \E op \in Ops, key \in CallerKeys, member \in URLs :
        /\ Idle /\ ~Usable
        /\ \E m \in {method_call(d_redis, d_client, FALSE,
                                   op_value(op, store, key, member))} :
             d_last' = ConnCall(op, m.raised, m.ret, TRUE)
        /\ UNCHANGED <<d_client, d_redis>>
        /\ UNCHANGED <<retryVars, storeVars, sessVars, cardVars, scanVars>>

\* is_product_valid, self.redis being `handle`
is_product_valid_through(handle, client, site, cat, urls, card, st) ==
    CHOOSE v \in
      {CASE g.kind = "raise" -> ConnCall("is_product_valid", TRUE, None, FALSE)
         [] g.kind = "false" ->
              ConnCall("is_product_valid", FALSE, PyBool(FALSE), FALSE)
         [] OTHER ->
              CHOOSE w \in
                {IF m.raised THEN ConnCall("is_product_valid", TRUE, None, TRUE)
                 ELSE ConnCall("is_product_valid", FALSE, PyBool(~m.ret.b), TRUE)
                 : m \in {method_call(handle, client, FALSE,
                              is_member(st, GateKey, g.url.url))}} : TRUE
       : g \in {valid_before_cache(site, cat, urls, card)}} : TRUE

\* the gate of a session on some site while the store is not usable
GateUnusable ==
    \E site \in Websites, cat \in Categories, card \in Cards :
        /\ Idle /\ ~Usable
        /\ d_last' = is_product_valid_through(d_redis, d_client, site, cat,
                                               product_urls, card, store)
        /\ UNCHANGED <<d_client, d_redis>>
        /\ UNCHANGED <<retryVars, storeVars, sessVars, cardVars, scanVars>>

\* ------------------------------------------ card processing: state
Sessions == {"A", "B"}
CardStep(sess, card, container, fails) ==
    [sess |-> sess, card |-> card, container |-> container, fails |-> fails,
     op |-> "card", left |-> SessionStart(1, <<>>)]
NoCardStep == CardStep("none", DealCard, FALSE, FALSE)
\* the record of a get_products call that has run lines 71-75: `left` is the
\* page index and URL list it found in the helper
StartStep(sess, page, urls) ==
    [CardStep(sess, DealCard, FALSE, FALSE) EXCEPT
        !.op = "start", !.left = SessionStart(page, urls)]

\* no session is processing cards
InitCards ==
    /\ c_site = NoSite
    /\ c_sess = [s \in Sessions |-> ExtractOut(FALSE, <<>>, <<>>)]
    /\ c_last = NoCardStep
    /\ c_page = [s \in Sessions |-> 1]

\* what get_flipkart_data(product_url) can hand back for a card: None off
\* FLIPKART or without a link, else the container fetched or None
ContainerResults(site, card) ==
    IF site # "FLIPKART" \/ card.href = NoHref THEN {FALSE} ELSE BOOLEAN

\* one pass of the loop body of extract_products_by_website in one of the
\* sessions that share the store, for a card of the page it is on
ProcessCardIn(s) ==
    \E card \in Cards, cat \in Categories, fails \in BOOLEAN :
      \E container \in ContainerResults(c_site, card) :
        /\ Idle /\ Usable
        /\ ~c_sess[s].raised
        /\ Len(c_sess["A"].products) + Len(c_sess["B"].products) < MaxAccepted
        /\ c_sess' = [c_sess EXCEPT
                         ![s] = card_step(c_site, cat, c_sess[s], card, store,
                                          fails, container)]
        /\ c_last' = CardStep(s, card, container, fails)
        /\ UNCHANGED <<c_site, c_page>>
        /\ UNCHANGED <<retryVars, storeVars, sessVars, connVars, scanVars>>

ProcessCard == \E s \in Sessions : ProcessCardIn(s)

\* self.go_to_next_page(); self.page_conter += 1, while the listing has a
\* next page
AdvancePage(s) ==
    /\ Idle /\ Usable
    /\ ~c_sess[s].raised
    /\ c_page[s] < Len(Listing)
    /\ c_page' = [c_page EXCEPT ![s] = c_page[s] + 1]
    /\ UNCHANGED <<c_site, c_sess, c_last>>
    /\ UNCHANGED <<retryVars, storeVars, sessVars, connVars, scanVars>>

\* the helper is used for another get_products call: lines 71-75 run on
\* what the call before left, whether it returned or raised
StartSession(s) ==
    /\ Idle /\ Usable
    /\ \E start \in {session_start(c_page[s], c_sess[s].urls)} :
         /\ c_sess' = [c_sess EXCEPT ![s] = ExtractOut(FALSE, <<>>, start.urls)]
         /\ c_page' = [c_page EXCEPT ![s] = start.page]
    /\ c_last' = StartStep(s, c_page[s], c_sess[s].urls)
    /\ UNCHANGED c_site
    /\ UNCHANGED <<retryVars, storeVars, sessVars, connVars, scanVars>>

\* ---------------------------------------------------- retry: the harness
InitRetry ==
    /\ r_max \in 0..MaxRetries
    /\ r_func \in [1..MaxRetries -> Outcomes]
    /\ r_pc = "ready"
    /\ r_out = [trace |-> NoTrace, value |-> None, raised |-> FALSE]
    /\ InitStore
    /\ InitSession
    /\ InitConn
    /\ InitCards
    /\ max_products = 1

\* one call of the decorated function
RetryCall ==
    /\ r_pc = "ready"
    /\ r_out' = retry(r_max, r_func)
    /\ r_pc' = "returned"
    /\ UNCHANGED <<r_max, r_func>>
    /\ UNCHANGED <<storeVars, sessVars, connVars, cardVars, scanVars>>

NextRetry == RetryCall

SpecRetry == InitRetry /\ [][NextRetry]_vars

\* --------------------------------------------------- the de-dup cache alone
InitCache ==
    /\ r_max = 0
    /\ r_func = [k \in 1..MaxRetries |-> "ok"]
    /\ r_pc = "ready"
    /\ r_out = [trace |-> NoTrace, value |-> None, raised |-> FALSE]
    /\ InitStore
    /\ InitSession
    /\ InitConn
    /\ InitCards
    /\ max_products = 1

NextCache ==
    \/ Tick \/ GenerateKey \/ AddToSet \/ IsMember \/ IsUrlCached
    \/ RemoveToSet \/ RemoveSet \/ Return

SpecCache == InitCache /\ [][NextCache]_vars

\* ------------------------------------- the crawl session with the cache
InitCrawl ==
    /\ r_max = 0
    /\ r_func = [k \in 1..MaxRetries |-> "ok"]
    /\ r_pc = "ready"
    /\ r_out = [trace |-> NoTrace, value |-> None, raised |-> FALSE]
    /\ InitStore
    /\ InitSession
    /\ InitConn
    /\ InitCards
    /\ max_products \in 0..MaxProductsCfg

NextCrawl ==
    \/ GenerateKey \/ Register \/ Return
    \/ GetProducts \/ ExtractProducts \/ IsProductValid \/ FetchContainer

SpecCrawl == InitCrawl /\ [][NextCrawl]_vars

\* ------------------------------ the store behind a connection that may fail
InitConnect ==
    /\ r_max = 0
    /\ r_func = [k \in 1..MaxRetries |-> "ok"]
    /\ r_pc = "ready"
    /\ r_out = [trace |-> NoTrace, value |-> None, raised |-> FALSE]
    /\ InitStore
    /\ InitSession
    /\ max_products = 1
    /\ d_client = "None"       \* __init__
    /\ d_redis = "RedisDB"     \* redis = RedisDB()
    /\ d_last = NoConnCall
    /\ InitCards

NextConnect ==
    \/ Enter \/ Exit \/ CallUnusable \/ GateUnusable
    \/ AddToSet \/ IsMember \/ GetAllMember \/ Return

SpecConnect == InitConnect /\ [][NextConnect]_vars

\* ---------------- the per-card loop body, two sessions sharing the store
InitProcess ==
    /\ r_max = 0
    /\ r_func = [k \in 1..MaxRetries |-> "ok"]
    /\ r_pc = "ready"
    /\ r_out = [trace |-> NoTrace, value |-> None, raised |-> FALSE]
    /\ InitStore
    /\ InitSession
    /\ max_products = 1
    /\ InitConn
    /\ c_site \in Websites
    /\ c_sess = [s \in Sessions |-> ExtractOut(FALSE, <<>>, <<>>)]
    /\ c_last = NoCardStep
    /\ c_page = [s \in Sessions |-> 1]

NextProcess == ProcessCard \/ Return

SpecProcess == InitProcess /\ [][NextProcess]_vars

\* -------------- one helper used for one get_products call after another
NextSessions ==
    \/ ProcessCardIn("A") \/ AdvancePage("A") \/ StartSession("A") \/ Return

SpecSessions == InitProcess /\ [][NextSessions]_vars

\* ------------------------------- is_url_cached over any store and batching
\* what a long-lived store may hold when the call is made: any sets of URLs
\* under the window keys, the literal key and a key outside the cache prefix
ScanStores == [Keys -> SUBSET URLs]

InitScan ==
    /\ r_max = 0
    /\ r_func = [k \in 1..MaxRetries |-> "ok"]
    /\ r_pc = "ready"
    /\ r_out = [trace |-> NoTrace, value |-> None, raised |-> FALSE]
    /\ clock = 0
    /\ store \in ScanStores
    /\ expiry = [k \in Keys |-> 0]
    /\ genKeys = {}
    /\ added = {<<k, u>> \in Keys \X URLs : u \in store[k]}
    /\ last = NoCall
    /\ InitSession
    /\ max_products = 1
    /\ InitConn
    /\ InitCards
    /\ q_scan \in {ScanCall(batches, url, FALSE, None, 0) :
                      batches \in Batchings(store), url \in URLs}

\* the call runs its loop to the return
ScanKeys ==
    /\ ~q_scan.done
    /\ Idle /\ Usable
    /\ q_scan' = ScanCall(q_scan.batches, q_scan.url, TRUE,
                          redis_call(FALSE, is_url_cached(store, q_scan.batches,
                                                          q_scan.url)),
                          scan_count(store, q_scan.batches, q_scan.url))
    /\ UNCHANGED <<retryVars, storeVars, sessVars, connVars, cardVars>>

NextScan == ScanKeys

SpecScan == InitScan /\ [][NextScan]_vars

\* ------------------------------------------------------- retry: claims
\* the wrapped function raises on each of its first n calls
FailsFirst(n) == \A k \in 1..n : r_func[k] = "exc"

\* base of the backoff: wait_time = 1 * 2 ** retry_count
BackoffBase == 1

\* C7: with max_retries = n >= 1 around a function that raises on every call,
\* the function is invoked exactly n times and the wrapper then returns None;
\* for n = 3 the total time slept is at least base * (1 + 2).
C7_RetryExhaustion ==
    (r_pc = "returned" /\ r_max >= 1 /\ FailsFirst(r_max)) =>
        /\ Len(Calls(r_out)) = r_max
        /\ \A k \in 1..r_max : Calls(r_out)[k] = <<"call", k>>
        /\ r_out.value = None
        /\ ~r_out.raised
        /\ (r_max = 3 => TotalSlept(r_out.trace) >= BackoffBase * (1 + 2))

C7_Witness ==
    /\ r_pc = "returned" /\ r_max = 3 /\ FailsFirst(3)
    /\ Len(Calls(r_out)) = 3 /\ TotalSlept(r_out.trace) = 3

\* C8: after the k-th failed attempt, k < max_retries, the wrapper sleeps
\* exactly base * 2^(k-1) and then makes attempt k+1; nothing else is slept,
\* and the number of attempts never exceeds max_retries.
C8_BackoffSchedule ==
    r_pc = "returned" =>
        LET t == r_out.trace IN
        /\ Len(Calls(r_out)) <= r_max
        /\ \A k \in 1..MaxRetries :
              (k < r_max /\ FailsFirst(k)) =>
                 \E i \in 1..(Len(t) - 2) :
                     /\ t[i] = <<"call", k>>
                     /\ t[i + 1] = <<"sleep", BackoffBase * Pow2(k - 1)>>
                     /\ t[i + 2] = <<"call", k + 1>>
        /\ \A i \in 1..Len(t) :
              t[i][1] = "sleep" =>
                 /\ i > 1 /\ i < Len(t)
                 /\ t[i - 1][1] = "call"
                 /\ t[i][2] = BackoffBase * Pow2(t[i - 1][2] - 1)
                 /\ t[i + 1] = <<"call", t[i - 1][2] + 1>>

C8_Witness ==
    /\ r_pc = "returned" /\ r_max = 4 /\ FailsFirst(3)
    /\ Sleeps(r_out) = << <<"sleep", 1>>, <<"sleep", 2>>, <<"sleep", 4>> >>

\* C9: for every max_retries >= 0 and every pattern of per-attempt success or
\* failure, the wrapper call ends by returning the function's result or None:
\* no exception of the wrapped function leaves the wrapper.
C9_NeverRaises ==
    r_pc = "returned" =>
        /\ ~r_out.raised
        /\ \/ r_out.value = None
           \/ \E k \in 1..r_max : r_func[k] = "ok" /\ r_out.value = ResultOfCall(k)

C9_Witness ==
    /\ r_pc = "returned" /\ r_max = 2 /\ FailsFirst(2)
    /\ r_out.value = None /\ ~r_out.raised /\ Len(Calls(r_out)) = 2

\* C26: when the wrapped function first succeeds on attempt k <= max_retries,
\* the wrapper returns the result of that attempt, has invoked the function
\* exactly k times, in order, and the k-th call is the last thing it did: no
\* sleep and no call follows the success.
C26_FirstSuccessReturns ==
    r_pc = "returned" =>
        \A k \in 1..MaxRetries :
            (k <= r_max /\ FailsFirst(k - 1) /\ r_func[k] = "ok") =>
                /\ r_out.value = ResultOfCall(k)
                /\ ~r_out.raised
                /\ Len(Calls(r_out)) = k
                /\ \A i \in 1..k : Calls(r_out)[i] = <<"call", i>>
                /\ r_out.trace[Len(r_out.trace)] = <<"call", k>>

C26_Witness ==
    /\ r_pc = "returned" /\ r_max = 4 /\ FailsFirst(2)
    /\ r_func[3] = "ok" /\ r_func[4] = "ok"
    /\ r_out.value = ResultOfCall(3) /\ Len(Calls(r_out)) = 3
    /\ Len(Sleeps(r_out)) = 2

\* ------------------------------------------------ de-dup cache: claims
\* u was SADDed into a live key matching the cache prefix and has not been
\* removed since
RegisteredLive(u) == \E k \in Keys : MatchesPattern(k) /\ <<k, u>> \in added

\* C1: whenever the store is reachable, is_url_cached(u) returns True if u was
\* added by add_to_set(k, u) under a key k produced by
\* generate_product_url_cache_key() that is still live, and returns False if
\* no add_to_set of u into a live key matching the cache prefix has happened.
C1_RegisterThenExists ==
    (last.op = "is_url_cached" /\ ~last.fails) =>
        /\ (\E k \in genKeys : <<k, last.url>> \in added) => last.ret = PyBool(TRUE)
        /\ ~RegisteredLive(last.url) => last.ret = PyBool(FALSE)

C1_Witness ==
    /\ last.op = "is_url_cached" /\ ~last.fails
    /\ \E k \in genKeys : <<k, last.url>> \in added /\ Cardinality(store[k]) = 2
    /\ last.ret = PyBool(TRUE)

\* C6: a URL registered under window key W1 is reported present by
\* is_url_cached at every later time at which W1 has not expired, also once
\* generate_product_url_cache_key() returns another key W2 and URLs have been
\* registered under W2.
C6_EarlierWindowStillFound ==
    (last.op = "is_url_cached" /\ ~last.fails) =>
        \A W1 \in genKeys :
            (/\ W1 # generate_product_url_cache_key(clock)
             /\ <<W1, last.url>> \in added
             /\ (expiry[W1] = 0 \/ expiry[W1] > clock))
            => last.ret = PyBool(TRUE)

C6_Witness ==
    /\ last.op = "is_url_cached" /\ ~last.fails /\ last.ret = PyBool(TRUE)
    /\ \E W1 \in genKeys, W2 \in genKeys :
          /\ W2 = generate_product_url_cache_key(clock) /\ W1 # W2
          /\ <<W1, last.url>> \in added
          /\ store[W2] # {} /\ last.url \notin store[W2]

\* ------------------------------------------------ crawl session: claims
\* the URL a card's link normalizes to on the session's site
CardUrl(card) == format_extracted_data(website_name, "product_url", card.href)
\* the price to pay a card shows
CardDiscount(card) ==
    format_extracted_data(website_name, "product_discount", card.discount)
\* is_url_cached(u) would be True: u is in a live set matching the cache prefix
InCache(u) == \E k \in LiveMatching(store) : u \in store[k]
\* a card the gate rules accept: every required field, price to pay within
\* the ceiling, classifier verdict "Best Deal"
Qualifies(card) ==
    /\ card.rest /\ card.price # Absent /\ card.discount # Absent
    /\ CardUrl(card).kind = "url"
    /\ CardDiscount(card).kind = "int"
    /\ CardDiscount(card).n <= PRICE_LIMITS(category)
    /\ card.verdict = "Best Deal"
ListingCards ==
    UNION {{Listing[p][i] : i \in 1..Len(Listing[p])} : p \in 1..Len(Listing)}

C3_AmazonCardEmitted ==
    (/\ s_last.op = "extract_products_by_website" /\ s_last.page = 1
     /\ website_name = "AMAZON" /\ ~s_last.fails
     /\ Qualifies(DealCard) /\ ~InCache(CardUrl(DealCard).url)
     /\ Len(product_urls) = Len(s_last.products))  \* nothing accepted before the call
    => /\ \E i \in 1..Len(s_last.products) :
             s_last.products[i].url = CardUrl(DealCard).url
       /\ \E i \in 1..Len(product_urls) : product_urls[i] = CardUrl(DealCard).url

\* cards that differ in list price and price to pay around the ceiling
CeilingCases == {CeilingCard, OverCard, DiscountedCard, DearerCard}

\* C4: the price-ceiling check passes a product exactly when its price to
\* pay (discountPrice) is at most the category's ceiling, whatever the
\* undiscounted price is.
C4_CeilingOnDiscountPrice ==
    (/\ s_last.op = "is_product_valid" /\ s_last.card \in CeilingCases
     /\ website_name = "AMAZON" /\ ~s_last.fails /\ ~s_last.raised
     /\ ~InCache(CardUrl(s_last.card).url))
    => s_last.ret = (CardDiscount(s_last.card).n <= PRICE_LIMITS(category))

\* C5: the gate rejects a product whenever its URL is a member of any live
\* set matching the cache prefix, that is whenever is_url_cached(url) would
\* be True.
C5_GateChecksEveryWindow ==
    (/\ s_last.op = "is_product_valid" /\ ~s_last.fails /\ ~s_last.raised
     /\ CardUrl(s_last.card).kind = "url"
     /\ InCache(CardUrl(s_last.card).url))
    => s_last.ret = FALSE

SessionStatuses == {"Done", "PartialFailure"}

C12_FetchesWhileBelowLimit ==
    (s_last.op = "get_products" /\ max_products > 0) =>
        /\ s_last.fetches >= 1
        /\ (/\ ~s_last.raised /\ ~s_last.fetch_failed
            /\ Len(s_last.products) < max_products)
           => s_last.fetches = Len(Listing)

\* C13: when the store is unreachable (no connection was established, or a
\* command raises) every RedisDB operation returns None without raising, and
\* the gate, once it asks the cache, takes the URL as not a duplicate.
C13_UnreachableIsBenign ==
    /\ (last.op # "none" /\ last.fails) => last.ret = None
    /\ d_last.op \in Ops => (~d_last.raised /\ d_last.ret = None)
    /\ (d_last.op = "is_product_valid" /\ d_last.asked) =>
          (~d_last.raised /\ d_last.ret = PyBool(TRUE))

\* ---------------------------------------------- card processing: claims
\* the URLs of the products a session has accepted
AcceptedUrls(s) == {c_sess[s].products[i].url : i \in 1..Len(c_sess[s].products)}

Partial(card) ==
    \/ card.price = Absent \/ card.href = NoHref
    \/ card.discount = Absent \/ ~card.rest

\* the sites the crawler has a URL form for
SupportedSites == {"AMAZON", "FLIPKART", "MYNTRA"}

\* C17: on a supported site, a raw card whose price, URL or other required
\* field is missing is skipped: processing it raises nothing and leaves the
\* accepted products and the session's URL list as they were.
C17_NoPartialRecord ==
    [][(c_last'.sess # "none" /\ c_site \in SupportedSites
        /\ Partial(c_last'.card)) => c_sess' = c_sess]_vars

C17_Witness ==
    /\ c_site = "FLIPKART" /\ c_last.sess # "none"
    /\ c_last.card = NoPriceCard /\ ~c_last.fails
    /\ Len(c_sess[c_last.sess].products) = 1 /\ ~c_sess[c_last.sess].raised

\* C18: a product enters the accepted list only when the classifier's
\* verdict is exactly "Best Deal"; a card with any other verdict leaves the
\* accepted list and the session's URL list unchanged.
C18_OnlyBestDeal ==
    [][c_last'.sess # "none" =>
         LET s == c_last'.sess IN
         /\ (Len(c_sess'[s].products) > Len(c_sess[s].products)
              \/ c_sess'[s].urls # c_sess[s].urls)
            => c_last'.card.verdict = "Best Deal"
         /\ (c_last'.card.verdict # "Best Deal" /\ ~c_sess'[s].raised)
            => c_sess' = c_sess]_vars

C18_Witness ==
    /\ c_site = "FLIPKART" /\ c_last.sess # "none"
    /\ c_last.card = NoDealCard /\ c_last.container /\ ~c_last.fails
    /\ Len(c_sess[c_last.sess].products) = 1
    /\ format_extracted_data(c_site, "product_url", NoDealCard.href).url
          \notin AcceptedUrls(c_last.sess)

C20_SessionUrlsDistinct ==
    \A s \in Sessions :
        ~c_sess[s].raised =>
            LET urls == c_sess[s].urls
                products == c_sess[s].products
            IN  /\ Len(urls) = Len(products)
                /\ \A i \in 1..Len(urls) : urls[i] = products[i].url
                /\ \A i, j \in 1..Len(urls) : urls[i] = urls[j] => i = j

C20_Witness ==
    /\ c_site = "FLIPKART" /\ c_last.sess # "none"
    /\ c_last.card = DearerCard /\ c_last.container /\ ~c_last.fails
    /\ LET s == c_last.sess
           u == format_extracted_data(c_site, "product_url", DearerCard.href).url
       IN  /\ ~c_sess[s].raised
           /\ \E i \in 1..Len(c_sess[s].urls) :
                 c_sess[s].urls[i] = u /\ c_sess[s].products[i].price = 1999

\* ------------------------------------------ window keys and expiry: claims
\* two instants of the same rotation period (a day: two ticks)
SamePeriod(t1, t2) == t1 \div 2 = t2 \div 2

\* C15: any two calls of generate_product_url_cache_key() made within the
\* same rotation period return the same window key.
C15_SameKeyWithinPeriod ==
    \A k1 \in genKeys, k2 \in genKeys : SamePeriod(k1.ts, k2.ts) => k1 = k2

\* C16: add_to_set sets an expiry only on a set that carries none: after a
\* successful call every non-empty window set carries an expiry, and a set
\* that already carried one keeps its expiry instant.
C16_ExpiryOnlyIfUnset ==
    [][(last'.op = "add_to_set" /\ ~last'.fails) =>
         \A k \in WindowKeys :
            /\ store'[k] # {} => expiry'[k] # 0
            /\ (store[k] # {} /\ expiry[k] # 0) => expiry'[k] = expiry[k]]_vars

\* C27: add_to_set is all-or-nothing with respect to its result: a call that
\* returns None leaves the store as it was, the member not added and no
\* expiry set or changed, also when the store fails between SADD and EXPIRE.
C27_AddAllOrNothing ==
    [][(last'.op = "add_to_set" /\ last'.ret = None) =>
         (store' = store /\ expiry' = expiry)]_vars

\* a card with a price and a link whose normalization fails: the price text
\* is malformed, or the site has no affiliate rewrite
Malformed(site, card) ==
    /\ card.price # Absent /\ card.href # NoHref
    /\ "raise" \in {format_extracted_data(site, "product_price", card.price).kind,
                    format_extracted_data(site, "product_url", card.href).kind}

\* C21: a structural error on one card (unrecognized site in the affiliate
\* rewrite, malformed price text) discards only that card: the loop goes on
\* to the next card, no error is raised, and the products accepted from
\* earlier cards and the session's URL list are kept.
C21_ErrorDiscardsOnlyCard ==
    [][(c_last'.sess # "none" /\ Malformed(c_site, c_last'.card)) =>
         c_sess' = c_sess]_vars

\* C28: leaving a `with RedisDB()` block always leaves client and pool
\* cleared and never swallows an exception raised inside the block: called
\* with an exception, __exit__ returns a falsy value, whether or not the
\* client was connected.
C28_ExitClearsAndPropagates ==
    d_last.op = "__exit__" =>
        /\ d_client = "None"
        /\ d_last.exc => ~d_last.ret.b

\* C23: the price-ceiling check runs before the duplicate check: the gate
\* asks the dedup store only about a product whose price passed the check
\* against the category's ceiling, never about one that fails it.
C23_CeilingBeforeStore ==
    (s_last.op = "is_product_valid" /\ s_last.asked) =>
        LET product_price ==
                format_extracted_data(website_name, "product_price", s_last.card.price)
        IN  /\ product_price.kind = "int"
            /\ product_price.n <= PRICE_LIMITS(category)

C23_Witness ==
    /\ s_last.op = "is_product_valid" /\ website_name = "AMAZON"
    /\ s_last.card = OverCard
    /\ format_extracted_data(website_name, "product_price", OverCard.price).n
          = PRICE_LIMITS(category) + 1
    /\ ~s_last.asked /\ ~s_last.raised /\ s_last.ret = FALSE

\* C24: fetch_product_container succeeds when the fetcher does: in a session
\* on page p it navigates to the URL iff p <= 1 or the type is "product";
\* if the browser wait and page read raise nothing it returns the container
\* on the first attempt; and it returns the failure value only when every
\* attempt of the retry ended in a fetcher error.
C24_FetchSucceedsWithFetcher ==
    s_last.op = "fetch_product_container" =>
        /\ s_last.navigated <=> (s_last.page <= 1 \/ s_last.type = "product")
        /\ s_last.env[1] = "ok" => (s_last.ret /\ s_last.fetches = 1)
        /\ s_last.fetch_failed =>
              \A k \in 1..FetchRetries : s_last.env[k] = "exc"

\* the batches of the call, by position, that hold a key whose set has the URL
MatchingBatches ==
    {i \in 1..Len(q_scan.batches) :
        \E key \in q_scan.batches[i] : q_scan.url \in store[key]}

\* C22: for every way the store splits the matching keys into SCAN batches,
\* empty batches with a non-zero cursor included, is_url_cached(url) ends
\* when the cursor is back at 0 or a match is found, issues no SCAN after
\* the first batch that holds a match, and returns True if and only if the
\* set of some enumerated key contains url.
C22_ScanAnyBatching ==
    q_scan.done =>
        /\ q_scan.ret = PyBool(\E key \in LiveMatching(store) : q_scan.url \in store[key])
        /\ q_scan.scans =
              IF MatchingBatches = {} THEN Len(q_scan.batches)
              ELSE CHOOSE i \in MatchingBatches : \A j \in MatchingBatches : i <= j

C22_Witness ==
    /\ q_scan.done /\ q_scan # NoScan
    /\ Len(q_scan.batches) = MaxBatches
    /\ q_scan.batches[1] = {}
    /\ MatchingBatches = {MaxBatches}
    /\ q_scan.ret = PyBool(TRUE) /\ q_scan.scans = MaxBatches

\* C25: a session owns no cross-session state: every get_products call on a
\* helper starts with page index 1 and an empty session-local URL list,
\* whatever the calls before left behind, a call that ended in an error
\* included; so the session-local check rejects no URL for having been
\* accepted in an earlier session: it rejects only URLs of products accepted
\* in the session itself.
C25_SessionStartsFresh ==
    [][/\ c_last'.op = "start" =>
            LET s == c_last'.sess IN
            /\ c_page'[s] = 1
            /\ c_sess'[s] = ExtractOut(FALSE, <<>>, <<>>)
       /\ (c_last'.sess # "none" /\ c_last'.op = "card") =>
            LET s == c_last'.sess
                product_url ==
                    format_extracted_data(c_site, "product_url", c_last'.card.href)
            IN  already_accepted(c_sess[s].urls, product_url)
                   => product_url.url \in AcceptedUrls(s)]_vars

C25_Witness ==
    /\ c_last.op = "start" /\ c_last.sess = "A"
    /\ c_last.left.page = 2 /\ Len(c_last.left.urls) = 1
    /\ c_page["A"] = 1 /\ c_sess["A"].urls = <<>>

====
